---- MODULE Spec2Model ----
(***************************************************************************)
(* Sengine: application driver (Application), window facade               *)
(* (Sengine::Window over Swindow::Window / Win32NativeWindow) and the 2D   *)
(* render-pass guard (Renderer2D).                                         *)
(*                                                                         *)
(* Three specifications share the variables:                               *)
(*   Spec      one run of Application::CreateApplication with a client     *)
(*   SpecWin   a client of the Swindow::Window library: callback setters,  *)
(*             SetIsRunning and window messages in any order               *)
(*   SpecKeys  the two key-code lookup functions applied to every input    *)
(***************************************************************************)
EXTENDS Integers, Sequences, FiniteSets, TLC

(***************************************************************************)
(* Bounds of the model.                                                    *)
(***************************************************************************)
\* nTicks saturates here (the tick loop itself is unbounded)
MaxTicks == 3
\* the library client of SpecWin keeps callbacks of at most this many kinds
\* registered at a time
MaxRegistered == 2

(***************************************************************************)
(* Key codes.  enum class KeyCode : uint8_t, numbered from Unknown = 0.     *)
(***************************************************************************)
KeyCode_Unknown == 0
KeyCode_A == 1
KeyCode_Z == 26
KeyCode_Num0 == 27
KeyCode_Num9 == 36
KeyCode_Escape == 37
KeyCode_Enter == 38
KeyCode_Space == 39
KeyCode_Backspace == 40
KeyCode_Tab == 41
KeyCode_Shift == 42
KeyCode_Ctrl == 43
KeyCode_Alt == 44
KeyCode_Left == 45
KeyCode_Right == 46
KeyCode_Up == 47
KeyCode_Down == 48
KeyCode_F1 == 49
KeyCode_F12 == 60
KeyCode_Count == 61

KeyCodes == KeyCode_Unknown .. KeyCode_Count

\* Win32 virtual-key codes used by the two tables
VK_BACK == 8
VK_TAB == 9
VK_RETURN == 13
VK_SHIFT == 16
VK_CONTROL == 17
VK_MENU == 18
VK_ESCAPE == 27
VK_SPACE == 32
VK_LEFT == 37
VK_UP == 38
VK_RIGHT == 39
VK_DOWN == 40
VK_F1 == 112
VK_F12 == 123
Char_A == 65
Char_Z == 90

\* the int values a virtual-key parameter takes (one byte)
NativeCodes == 0 .. 255

\* the std::unordered_map<int, KeyCode> of ConvertNativeKeyCodes
NativeToKeyMap ==
    [c \in Char_A .. Char_Z |-> KeyCode_A + (c - Char_A)] @@
    (VK_ESCAPE :> KeyCode_Escape) @@ (VK_RETURN :> KeyCode_Enter) @@
    (VK_SPACE :> KeyCode_Space) @@ (VK_BACK :> KeyCode_Backspace) @@
    (VK_TAB :> KeyCode_Tab) @@ (VK_SHIFT :> KeyCode_Shift) @@
    (VK_CONTROL :> KeyCode_Ctrl) @@ (VK_MENU :> KeyCode_Alt) @@
    (VK_LEFT :> KeyCode_Left) @@ (VK_RIGHT :> KeyCode_Right) @@
    (VK_UP :> KeyCode_Up) @@ (VK_DOWN :> KeyCode_Down) @@
    [c \in VK_F1 .. VK_F12 |-> KeyCode_F1 + (c - VK_F1)]

\* the std::unordered_map<KeyCode, int> of GetNativeKeyCodes
KeyToNativeMap ==
    [k \in KeyCode_A .. KeyCode_Z |-> Char_A + (k - KeyCode_A)] @@
    (KeyCode_Escape :> VK_ESCAPE) @@ (KeyCode_Enter :> VK_RETURN) @@
    (KeyCode_Space :> VK_SPACE) @@ (KeyCode_Backspace :> VK_BACK) @@
    (KeyCode_Tab :> VK_TAB) @@ (KeyCode_Shift :> VK_SHIFT) @@
    (KeyCode_Ctrl :> VK_CONTROL) @@ (KeyCode_Alt :> VK_MENU) @@
    (KeyCode_Left :> VK_LEFT) @@ (KeyCode_Right :> VK_RIGHT) @@
    (KeyCode_Up :> VK_UP) @@ (KeyCode_Down :> VK_DOWN) @@
    [k \in KeyCode_F1 .. KeyCode_F12 |-> VK_F1 + (k - KeyCode_F1)]

\* keyMap.find(key), else KeyCode::Unknown
ConvertNativeKeyCodes(key) ==
    IF key \in DOMAIN NativeToKeyMap THEN NativeToKeyMap[key] ELSE KeyCode_Unknown

\* GetNativeKeyCodes with the arrow keys numbered in enum order
\* (Left, Right, Up, Down) from VK_LEFT on
GetNativeKeyCodes_ArrowOrder(code) ==
    IF code \in KeyCode_Left .. KeyCode_Down THEN VK_LEFT + (code - KeyCode_Left)
    ELSE IF code \in DOMAIN KeyToNativeMap THEN KeyToNativeMap[code] ELSE -1

\* keyMap.find(code), else -1
GetNativeKeyCodes(code) ==
    IF code \in DOMAIN KeyToNativeMap THEN KeyToNativeMap[code] ELSE -1

\* LOWORD / HIWORD / MAKELPARAM of a 32-bit message parameter
LOWORD(l) == l % 65536
HIWORD(l) == (l \div 65536) % 65536
MAKELPARAM(lo, hi) == (lo % 65536) + 65536 * (hi % 65536)

\* GetAsyncKeyState returns a SHORT: bit 15 = key is down now, bit 0 = key
\* was pressed since the previous call
KeyStates == {0, 1, 32768, 32769}
KeyIsDown(s) == s >= 32768

\* GetAsyncKeyState(vKey) on a keyboard where Escape has state escState and
\* every other key is up
GetAsyncKeyState(escState, vKey) == IF vKey = VK_ESCAPE THEN escState ELSE 0

\* IsKeyDown looking only at the "pressed since the previous call" bit
IsKeyDown_LowBit(code, escState) ==
    GetAsyncKeyState(escState, GetNativeKeyCodes(code)) % 2 = 1

\* Win32NativeWindow::IsKeyDown(code): the SHORT is converted to bool
IsKeyDown(code, escState) ==
    GetAsyncKeyState(escState, GetNativeKeyCodes(code)) # 0

(***************************************************************************)
(* State.                                                                  *)
(***************************************************************************)
VARIABLES
    \* Renderer2D and the process
    m_CurrentRenderIndex,   \* inline static int of Renderer2D
    aborted,                \* std::abort() was called
    \* history of the renderer calls
    inOrder,                \* the calls so far are a prefix of (Begin Draw End)*
    orderPos,               \* position in that cycle, 0..2
    begunSinceEnd,          \* BeginRender was called since the last EndRender
    lastCall,               \* the last renderer call made, "none" before the first
    \* Swindow::Window and its Win32NativeWindow
    winExists,              \* Window::Create has returned a window
    m_WindowDescription,    \* [Title, Width, Height]
    m_IsRunning,
    m_WindowCallbacks,      \* per kind: 0 = empty std::function, else its identity
    m_WindowHandle,         \* "null", "valid" or "destroyed"
    m_OpenGLContext,        \* "uninit", "real" or "deleted"
    currentContext,         \* the context bound to the thread: "none", "temp", "real"
    tempContextAlive,       \* the temporary context exists and was not deleted
    registered,             \* static bool of RegisterWindowClass
    classRegistered,        \* the platform has the window class
    lastEvent,              \* the last message WindowProc handled for the window and the
                            \* callback invocations it made
    \* Application
    pc,                     \* position in CreateApplication
    client,                 \* which ISengineApp was passed in
    clientDesc,             \* the client's WindowDescription
    tickPos,                \* position inside the client's OnTick
    callLog,                \* lifecycle calls made so far, in order (OnTick is counted in nTicks)
    nTicks,                 \* OnTick invocations, saturating at MaxTicks
    iterLog,                \* what Application::Tick did so far in the current iteration
    escSeen,                \* the Escape check of the tick loop found the key down
    \* the key-code lookups
    keyTest                 \* [dir, in, mid, out, step]

renderVars == <<m_CurrentRenderIndex, aborted, inOrder, orderPos, begunSinceEnd, lastCall>>
windowVars == <<winExists, m_WindowDescription, m_IsRunning, m_WindowCallbacks, lastEvent>>
nativeVars == <<m_WindowHandle, m_OpenGLContext, currentContext, tempContextAlive,
                registered, classRegistered>>
appVars == <<pc, client, clientDesc, tickPos, callLog, nTicks, iterLog, escSeen>>
vars == <<renderVars, windowVars, nativeVars, appVars, keyTest>>

(***************************************************************************)
(* Assertion::Assert and Renderer2D.                                       *)
(***************************************************************************)
\* Assert with the test the other way round: "if (!condition)"
SE_Assert_Negated(condition) == ~condition

\* Assertion::Assert(condition, ...): TRUE iff the call reaches std::abort().
\* The code's test is "if (condition)".
SE_Assert(condition) == condition

RenderOps == {"BeginRender", "DrawQuad", "EndRender"}

\* BeginRender without its assertion
BeginRender_NoCheck ==
    m_CurrentRenderIndex' = m_CurrentRenderIndex + 1 /\ UNCHANGED aborted

BeginRender ==
    IF SE_Assert(m_CurrentRenderIndex = 1)
    THEN aborted' = TRUE /\ UNCHANGED m_CurrentRenderIndex
    ELSE m_CurrentRenderIndex' = m_CurrentRenderIndex + 1 /\ UNCHANGED aborted

\* EndRender that steps the counter back instead of resetting it
EndRender_Decrement ==
    m_CurrentRenderIndex' = m_CurrentRenderIndex - 1 /\ UNCHANGED aborted

\* EndRender that forgets the reset
EndRender_NoReset ==
    UNCHANGED <<m_CurrentRenderIndex, aborted>>

EndRender ==
    m_CurrentRenderIndex' = 0 /\ UNCHANGED aborted

\* DrawQuad testing the counter against 1 instead of 0
DrawQuad_ChecksOne ==
    IF SE_Assert(m_CurrentRenderIndex = 1)
    THEN aborted' = TRUE /\ UNCHANGED m_CurrentRenderIndex
    ELSE UNCHANGED <<m_CurrentRenderIndex, aborted>>

DrawQuad ==
    IF SE_Assert(m_CurrentRenderIndex = 0)
    THEN aborted' = TRUE /\ UNCHANGED m_CurrentRenderIndex
    ELSE UNCHANGED <<m_CurrentRenderIndex, aborted>>

\* the order Editor::OnTick makes its calls in
EditorProgram == <<"BeginRender", "DrawQuad", "EndRender">>

\* bookkeeping of the call sequence (not program state)
RenderHistory(op) ==
    /\ inOrder' = (inOrder /\ op = EditorProgram[orderPos + 1])
    /\ orderPos' = (orderPos + 1) % 3
    /\ begunSinceEnd' = CASE op = "BeginRender" -> TRUE
                          [] op = "EndRender" -> FALSE
                          [] OTHER -> begunSinceEnd
    /\ lastCall' = op

\* Renderer::BeginRender2D / Draw2D / EndRender2D forward to Renderer2D
RendererCall(op) ==
    /\ CASE op = "BeginRender" -> BeginRender
         [] op = "DrawQuad" -> DrawQuad
         [] op = "EndRender" -> EndRender
    /\ RenderHistory(op)

(***************************************************************************)
(* Swindow::Window and Win32NativeWindow.                                  *)
(***************************************************************************)
CallbackKinds == {"Resize", "Close", "Key", "Mouse", "MouseMove", "Character"}
\* identities of the callbacks a library client registers
CallbackIds == {1, 2}
NoCallbacks == [k \in CallbackKinds |-> 0]
NoEvent == [type |-> "none", wParam |-> 0, lParam |-> 0, calls |-> <<>>, seenW |-> 0, seenH |-> 0]

\* enum class MouseButton
MouseButton_Unknown == 0
MouseButton_Left == 1
MouseButton_Right == 2
VK_LBUTTON == 1
VK_RBUTTON == 2

\* descriptions and message parameters the model draws its inputs from
Descriptions == {[Title |-> "Editor", Width |-> 1270, Height |-> 720],
                 [Title |-> "Test", Width |-> 800, Height |-> 600]}
\* client-area sizes a WM_SIZE carries (and positions of a WM_MOUSEMOVE)
Sizes == {<<1024, 768>>, <<0, 0>>}
Widths == {sz[1] : sz \in Sizes}
Heights == {sz[2] : sz \in Sizes}
\* virtual-key codes of key messages: in the table ('A') and not in it ('0')
KeyParams == {Char_A, 48}
CharParams == {8, 97}
Messages ==
    [type : {"WM_SIZE", "WM_MOUSEMOVE"}, wParam : {0},
     lParam : {MAKELPARAM(sz[1], sz[2]) : sz \in Sizes}]
    \cup [type : {"WM_KEYDOWN", "WM_KEYUP"}, wParam : KeyParams, lParam : {0}]
    \cup [type : {"WM_CHAR"}, wParam : CharParams, lParam : {0}]
    \cup [type : {"WM_LBUTTONDOWN", "WM_LBUTTONUP", "WM_RBUTTONDOWN", "WM_RBUTTONUP",
                  "WM_CLOSE", "WM_DESTROY", "WM_PAINT"},
          wParam : {0}, lParam : {0}]

\* Win32NativeWindow::RegisterWindowClass(hInstance); regOk: RegisterClassEx succeeds
RegisterWindowClass(regOk) ==
    IF registered
    THEN UNCHANGED <<registered, classRegistered>>
    ELSE /\ classRegistered' = (classRegistered \/ regOk)
         /\ registered' = TRUE

\* Win32NativeWindow::Win32NativeWindow(window); createOk: CreateWindowEx can
\* succeed (it cannot when the class is not registered)
Win32NativeWindow(regOk, createOk) ==
    /\ RegisterWindowClass(regOk)
    /\ m_WindowHandle' = IF classRegistered' /\ createOk THEN "valid" ELSE "null"

\* Window::Create that reports a window as running only when the platform
\* window was made
SwindowCreate_RunningIfNative(description, regOk, createOk) ==
    /\ winExists' = TRUE
    /\ m_WindowDescription' = description
    /\ m_WindowCallbacks' = NoCallbacks
    /\ lastEvent' = NoEvent
    /\ Win32NativeWindow(regOk, createOk)
    /\ m_IsRunning' = (m_WindowHandle' = "valid")

\* Window::Create(description)
SwindowCreate(description, regOk, createOk) ==
    /\ winExists' = TRUE
    /\ m_WindowDescription' = description
    /\ m_WindowCallbacks' = NoCallbacks
    /\ lastEvent' = NoEvent
    /\ Win32NativeWindow(regOk, createOk)
    /\ m_IsRunning' = TRUE

\* Win32NativeWindow::CreateContext on a native window whose handle is
\* `handle`.  tempOk: wglCreateContext gives the temporary context; procOk:
\* wglCreateContextAttribsARB is resolved; ctxOk: the real context is made.
\* With a null handle the device context was never obtained and no context
\* can be made on it.
CreateContext(handle, tempOk, procOk, ctxOk) ==
    LET temp == handle = "valid" /\ tempOk
    IN  IF ~(temp /\ procOk)
        THEN \* early return: nothing is unbound or deleted
             /\ currentContext' = (IF temp THEN "temp" ELSE "none")
             /\ tempContextAlive' = temp
             /\ UNCHANGED m_OpenGLContext
        ELSE IF ~ctxOk
        THEN /\ currentContext' = "none"
             /\ tempContextAlive' = FALSE
             /\ UNCHANGED m_OpenGLContext
        ELSE /\ currentContext' = "real"
             /\ tempContextAlive' = FALSE
             /\ m_OpenGLContext' = "real"

\* Win32NativeWindow::Destroy
NativeDestroy ==
    /\ currentContext' = "none"
    /\ m_OpenGLContext' = (IF m_OpenGLContext = "real" THEN "deleted" ELSE m_OpenGLContext)
    /\ m_WindowHandle' = IF m_WindowHandle = "valid" THEN "destroyed" ELSE m_WindowHandle
    /\ classRegistered' = FALSE
    /\ UNCHANGED <<tempContextAlive, registered>>

\* Window::SetWindowSize
SetWindowSize(desc, width, height) == [desc EXCEPT !.Width = width, !.Height = height]

\* WM_CLOSE with the callback ignored: the window always stops
CloseRequest_IgnoresCallback(hasClose, closeRet, running) == FALSE

\* WM_CLOSE without the else branch: no callback, no stop
CloseRequest_NoDefault(hasClose, closeRet, running) ==
    IF hasClose /\ closeRet THEN FALSE ELSE running

\* WindowProc, case WM_CLOSE: the running flag after the message
CloseRequest(hasClose, closeRet, running) ==
    IF hasClose
    THEN (IF closeRet THEN FALSE ELSE running)
    ELSE FALSE

\* WindowProc, case WM_SIZE: the description after the message
ResizeRequest(hasResize, desc, width, height) ==
    IF hasResize THEN SetWindowSize(desc, width, height) ELSE desc

\* WM_KEYDOWN / WM_KEYUP reporting every key message as a press
KeyRequest_AlwaysPressed(uMsg, wParam) == <<ConvertNativeKeyCodes(wParam), TRUE>>

\* WindowProc, case WM_KEYDOWN / WM_KEYUP: the arguments (key, isPressed) of
\* the key callback
KeyRequest(uMsg, wParam) == <<ConvertNativeKeyCodes(wParam), uMsg = "WM_KEYDOWN">>

\* WindowProc, cases WM_LBUTTONDOWN / WM_LBUTTONUP and WM_RBUTTONDOWN /
\* WM_RBUTTONUP: the arguments (button, isPressed) of the mouse callback.
\* Both cases compute isPressed as (uMsg == WM_LBUTTONDOWN).
MouseRequest(uMsg) ==
    IF uMsg \in {"WM_LBUTTONDOWN", "WM_LBUTTONUP"}
    THEN <<VK_LBUTTON, uMsg = "WM_LBUTTONDOWN">>
    ELSE <<VK_RBUTTON, uMsg = "WM_LBUTTONDOWN">>

\* One invocation of the registered callback of a kind, with its arguments
Invocation(kind, args) == [kind |-> kind, id |-> m_WindowCallbacks[kind], args |-> args]

\* WindowProc(hwnd, uMsg, wParam, lParam) for a window whose GWLP_USERDATA is
\* set.  closeRet is what the close callback returns when it is called.
\* lastEvent records the message, the invocations made and, as seenDesc, the
\* description a callback reads from the window while it runs.
WindowProc(msg, closeRet) ==
    LET has(kind) == m_WindowCallbacks[kind] # 0
        uMsg == msg.type
        width == LOWORD(msg.lParam)
        height == HIWORD(msg.lParam)
        calls ==
            CASE uMsg = "WM_CHAR" /\ has("Character") ->
                   <<Invocation("Character", <<msg.wParam % 256>>)>>
              [] uMsg = "WM_SIZE" /\ has("Resize") ->
                   <<Invocation("Resize", <<width, height>>)>>
              [] uMsg \in {"WM_KEYDOWN", "WM_KEYUP"} /\ has("Key") ->
                   <<Invocation("Key", KeyRequest(uMsg, msg.wParam))>>
              [] uMsg \in {"WM_LBUTTONDOWN", "WM_LBUTTONUP", "WM_RBUTTONDOWN", "WM_RBUTTONUP"}
                 /\ has("Mouse") ->
                   <<Invocation("Mouse", MouseRequest(uMsg))>>
              [] uMsg = "WM_MOUSEMOVE" /\ has("MouseMove") ->
                   <<Invocation("MouseMove", <<width, height>>)>>
              [] uMsg = "WM_CLOSE" /\ has("Close") ->
                   <<Invocation("Close", <<closeRet>>)>>
              [] OTHER -> <<>>
    IN  /\ m_WindowDescription' =
              IF uMsg = "WM_SIZE"
              THEN ResizeRequest(has("Resize"), m_WindowDescription, width, height)
              ELSE m_WindowDescription
        /\ m_IsRunning' =
              IF uMsg = "WM_CLOSE"
              THEN CloseRequest(has("Close"), closeRet, m_IsRunning)
              ELSE m_IsRunning
        /\ lastEvent' = [type |-> uMsg, wParam |-> msg.wParam, lParam |-> msg.lParam,
                         calls |-> calls,
                         seenW |-> IF calls # <<>> THEN m_WindowDescription'.Width ELSE 0,
                         seenH |-> IF calls # <<>> THEN m_WindowDescription'.Height ELSE 0]
        /\ UNCHANGED <<winExists, m_WindowCallbacks>>

\* the close callback's return value only matters when it is called
CloseRets(msg) ==
    IF msg.type = "WM_CLOSE" /\ m_WindowCallbacks["Close"] # 0 THEN BOOLEAN ELSE {TRUE}

(***************************************************************************)
(* Application: CreateApplication = Init, Tick, Destroy.                   *)
(***************************************************************************)
Clients == {"Editor", "Generic"}
EditorDescription == [Title |-> "Editor", Width |-> 1270, Height |-> 720]

\* callLog entries: the call and, for the two bool hooks, what it returned
Logged(call, result) == callLog' = Append(callLog, [call |-> call, result |-> result])
Called(call) == \E i \in 1 .. Len(callLog) : callLog[i].call = call
Returned(call, result) ==
    \E i \in 1 .. Len(callLog) : callLog[i].call = call /\ callLog[i].result = result

\* Init going on after OnEarlyInit returned false
Init_OnEarlyInit_IgnoresResult(result) ==
    /\ pc = "Init" /\ ~aborted
    /\ client = "Editor" => result = TRUE
    /\ clientDesc' = IF client = "Editor" THEN EditorDescription ELSE clientDesc
    /\ Logged("OnEarlyInit", result)
    /\ pc' = "WindowCreate"
    /\ UNCHANGED <<renderVars, windowVars, nativeVars, client, tickPos, nTicks, iterLog, escSeen, keyTest>>

\* Application::Init, first statement: m_ClientApp->OnEarlyInit().
\* Editor::OnEarlyInit fills its description and returns true.
Init_OnEarlyInit(result) ==
    /\ pc = "Init" /\ ~aborted
    /\ client = "Editor" => result = TRUE
    /\ clientDesc' = IF client = "Editor" THEN EditorDescription ELSE clientDesc
    /\ Logged("OnEarlyInit", result)
    /\ pc' = IF result THEN "WindowCreate" ELSE "returned"
    /\ UNCHANGED <<renderVars, windowVars, nativeVars, client, tickPos, nTicks, iterLog, escSeen, keyTest>>

\* Sengine::Window::Create(description): Swindow::Window::Create, then
\* CreateContext(); the shared_ptr it returns is never null
SengineWindowCreate(description, regOk, createOk, tempOk, procOk, ctxOk) ==
    /\ SwindowCreate(description, regOk, createOk)
    /\ CreateContext(m_WindowHandle', tempOk, procOk, ctxOk)

\* Init that gives up when the native window or its context was not made
Init_WindowCreate_ChecksWindow(regOk, createOk, tempOk, procOk, ctxOk) ==
    /\ pc = "WindowCreate" /\ ~aborted
    /\ SengineWindowCreate(clientDesc, regOk, createOk, tempOk, procOk, ctxOk)
    /\ Logged("WindowCreate", TRUE)
    /\ pc' = IF m_WindowHandle' = "valid" /\ m_OpenGLContext' = "real" THEN "OnInit" ELSE "returned"
    /\ UNCHANGED <<renderVars, client, clientDesc, tickPos, nTicks, iterLog, escSeen, keyTest>>

\* Application::Init, second and third statement
Init_WindowCreate(regOk, createOk, tempOk, procOk, ctxOk) ==
    /\ pc = "WindowCreate" /\ ~aborted
    /\ SengineWindowCreate(clientDesc, regOk, createOk, tempOk, procOk, ctxOk)
    /\ Logged("WindowCreate", TRUE)
    /\ pc' = "OnInit"
    /\ UNCHANGED <<renderVars, client, clientDesc, tickPos, nTicks, iterLog, escSeen, keyTest>>

\* Init going on to Tick after OnInit returned false
Init_OnInit_IgnoresResult(result) ==
    /\ pc = "OnInit" /\ ~aborted
    /\ client = "Editor" => result = TRUE
    /\ Logged("OnInit", result)
    /\ pc' = "TickCheck"
    /\ UNCHANGED <<renderVars, windowVars, nativeVars, client, clientDesc, tickPos, nTicks, iterLog,
                   escSeen, keyTest>>

\* Application::Init, last statement: m_ClientApp->OnInit(); on success
\* CreateApplication goes on to Tick()
Init_OnInit(result) ==
    /\ pc = "OnInit" /\ ~aborted
    /\ client = "Editor" => result = TRUE
    /\ Logged("OnInit", result)
    /\ pc' = IF result THEN "TickCheck" ELSE "returned"
    /\ UNCHANGED <<renderVars, windowVars, nativeVars, client, clientDesc, tickPos, nTicks, iterLog,
                   escSeen, keyTest>>

\* Tick with while (true) as its loop
Tick_Check_Forever ==
    /\ pc = "TickCheck" /\ ~aborted
    /\ pc' = "PollEvents" /\ iterLog' = <<"PollEvents">> /\ UNCHANGED callLog
    /\ UNCHANGED <<renderVars, windowVars, nativeVars, client, clientDesc, tickPos, nTicks,
                   escSeen, keyTest>>

\* Application::Tick, the loop condition m_Window->GetIsRunning(); when it is
\* false Tick returns and CreateApplication calls Destroy()
Tick_Check ==
    /\ pc = "TickCheck" /\ ~aborted
    /\ IF m_IsRunning
       THEN pc' = "PollEvents" /\ iterLog' = <<"PollEvents">> /\ UNCHANGED callLog
       ELSE pc' = "Destroy" /\ Logged("TickReturn", TRUE) /\ UNCHANGED iterLog
    /\ UNCHANGED <<renderVars, windowVars, nativeVars, client, clientDesc, tickPos, nTicks,
                   escSeen, keyTest>>

\* Win32NativeWindow::PollEvents, one message of the queue dispatched to WindowProc
Tick_Dispatch(msg, closeRet) ==
    /\ pc = "PollEvents" /\ ~aborted
    /\ m_WindowHandle = "valid"
    /\ WindowProc(msg, closeRet)
    /\ UNCHANGED <<renderVars, nativeVars, appVars, keyTest>>

\* Tick leaving the loop body as soon as Escape is seen
Tick_Escape_Breaks(asyncState) ==
    /\ pc = "PollEvents" /\ ~aborted
    /\ m_IsRunning' =
          IF IsKeyDown(KeyCode_Escape, asyncState) THEN FALSE ELSE m_IsRunning
    /\ escSeen' = (escSeen \/ KeyIsDown(asyncState))
    /\ IF IsKeyDown(KeyCode_Escape, asyncState)
       THEN /\ pc' = "TickCheck"
            /\ iterLog' = Append(iterLog, "IsKeyDown")
            /\ UNCHANGED <<tickPos, nTicks>>
       ELSE /\ pc' = "OnTick"
            /\ tickPos' = 0
            /\ nTicks' = IF nTicks < MaxTicks THEN nTicks + 1 ELSE nTicks
            /\ iterLog' = iterLog \o <<"IsKeyDown", "OnTick">>
    /\ UNCHANGED <<renderVars, winExists, m_WindowDescription, m_WindowCallbacks, lastEvent,
                   nativeVars, client, clientDesc, callLog, keyTest>>

\* Application::Tick after PollEvents returned: the Escape check, then the
\* call of OnTick.  asyncState is what GetAsyncKeyState(VK_ESCAPE) returns.
Tick_Escape(asyncState) ==
    /\ pc = "PollEvents" /\ ~aborted
    /\ m_IsRunning' =
          IF IsKeyDown(KeyCode_Escape, asyncState) THEN FALSE ELSE m_IsRunning
    /\ escSeen' = (escSeen \/ KeyIsDown(asyncState))
    /\ pc' = "OnTick"
    /\ tickPos' = 0
    /\ nTicks' = IF nTicks < MaxTicks THEN nTicks + 1 ELSE nTicks
    /\ iterLog' = iterLog \o <<"IsKeyDown", "OnTick">>
    /\ UNCHANGED <<renderVars, winExists, m_WindowDescription, m_WindowCallbacks, lastEvent,
                   nativeVars, client, clientDesc, callLog, keyTest>>

\* one renderer call of the client's OnTick: Editor::OnTick makes the three
\* calls of EditorProgram, any other client makes any calls
OnTick_Render(op) ==
    /\ pc = "OnTick" /\ ~aborted
    /\ client = "Editor" => (tickPos < Len(EditorProgram) /\ op = EditorProgram[tickPos + 1])
    /\ RendererCall(op)
    /\ tickPos' = IF client = "Editor" THEN tickPos + 1 ELSE tickPos
    /\ UNCHANGED <<windowVars, nativeVars, pc, client, clientDesc, callLog, nTicks, iterLog, escSeen,
                   keyTest>>

\* OnTick returns to Application::Tick
OnTick_Return ==
    /\ pc = "OnTick" /\ ~aborted
    /\ client = "Editor" => tickPos = Len(EditorProgram)
    /\ pc' = "SwapBuffers"
    /\ UNCHANGED <<renderVars, windowVars, nativeVars, client, clientDesc, tickPos, callLog,
                   nTicks, iterLog, escSeen, keyTest>>

\* Application::Tick, m_Window->SwapBuffers(), then back to the loop condition
Tick_SwapBuffers ==
    /\ pc = "SwapBuffers" /\ ~aborted
    /\ iterLog' = Append(iterLog, "SwapBuffers")
    /\ pc' = "TickCheck"
    /\ UNCHANGED <<renderVars, windowVars, nativeVars, client, clientDesc, tickPos, callLog,
                   nTicks, escSeen, keyTest>>

\* Destroy that goes from OnDestroy straight to OnLateDestroy
Destroy_OnDestroy_SkipsWindow ==
    /\ pc = "Destroy" /\ ~aborted
    /\ Logged("OnDestroy", TRUE)
    /\ pc' = "LateDestroy"
    /\ UNCHANGED <<renderVars, windowVars, nativeVars, client, clientDesc, tickPos, nTicks, iterLog,
                   escSeen, keyTest>>

\* Destroy that calls OnLateDestroy where OnDestroy belongs
Destroy_OnDestroy_CallsLateDestroy ==
    /\ pc = "Destroy" /\ ~aborted
    /\ Logged("OnLateDestroy", TRUE)
    /\ pc' = "WindowDestroy"
    /\ UNCHANGED <<renderVars, windowVars, nativeVars, client, clientDesc, tickPos, nTicks, iterLog,
                   escSeen, keyTest>>

\* Application::Destroy, m_ClientApp->OnDestroy()
Destroy_OnDestroy ==
    /\ pc = "Destroy" /\ ~aborted
    /\ Logged("OnDestroy", TRUE)
    /\ pc' = "WindowDestroy"
    /\ UNCHANGED <<renderVars, windowVars, nativeVars, client, clientDesc, tickPos, nTicks, iterLog,
                   escSeen, keyTest>>

\* Destroy that calls m_Window->Destroy() a second time
Destroy_Window_Twice ==
    /\ pc = "WindowDestroy" /\ ~aborted
    /\ NativeDestroy
    /\ Logged("WindowDestroy", TRUE)
    /\ pc' = IF Called("WindowDestroy") THEN "LateDestroy" ELSE "WindowDestroy"
    /\ UNCHANGED <<renderVars, windowVars, client, clientDesc, tickPos, nTicks, iterLog, escSeen, keyTest>>

\* Application::Destroy, m_Window->Destroy()
Destroy_Window ==
    /\ pc = "WindowDestroy" /\ ~aborted
    /\ NativeDestroy
    /\ Logged("WindowDestroy", TRUE)
    /\ pc' = "LateDestroy"
    /\ UNCHANGED <<renderVars, windowVars, client, clientDesc, tickPos, nTicks, iterLog, escSeen, keyTest>>

\* Application::Destroy, m_ClientApp->OnLateDestroy(); CreateApplication returns
Destroy_OnLateDestroy ==
    /\ pc = "LateDestroy" /\ ~aborted
    /\ Logged("OnLateDestroy", TRUE)
    /\ pc' = "returned"
    /\ UNCHANGED <<renderVars, windowVars, nativeVars, client, clientDesc, tickPos, nTicks, iterLog,
                   escSeen, keyTest>>

\* no window, no call made yet
NoWindow ==
    /\ winExists = FALSE
    /\ m_WindowDescription = [Title |-> "", Width |-> 0, Height |-> 0]
    /\ m_IsRunning = FALSE
    /\ m_WindowCallbacks = NoCallbacks
    /\ m_WindowHandle = "null"
    /\ m_OpenGLContext = "uninit"
    /\ currentContext = "none"
    /\ tempContextAlive = FALSE
    /\ registered = FALSE
    /\ classRegistered = FALSE
    /\ lastEvent = NoEvent

RendererAtStart ==
    /\ m_CurrentRenderIndex = 0
    /\ aborted = FALSE
    /\ inOrder = TRUE
    /\ orderPos = 0
    /\ begunSinceEnd = FALSE
    /\ lastCall = "none"

NoKeyTest == [dir |-> "none", in |-> 0, mid |-> 0, out |-> 0, step |-> 0]

\* main() has built the client and calls CreateApplication(app).  The Editor's
\* description is default-constructed: its ints hold any value until OnEarlyInit.
Init ==
    /\ RendererAtStart
    /\ NoWindow
    /\ pc = "Init"
    /\ client \in Clients
    /\ clientDesc \in IF client = "Editor"
                      THEN [Title : {""}, Width : Widths, Height : Heights]   \* indeterminate ints
                      ELSE Descriptions
    /\ tickPos = 0
    /\ callLog = <<>>
    /\ nTicks = 0
    /\ iterLog = <<>>
    /\ escSeen = FALSE
    /\ keyTest = NoKeyTest

Next ==
    \/ \E result \in BOOLEAN : Init_OnEarlyInit(result)
    \/ \E regOk, createOk, tempOk, procOk, ctxOk \in BOOLEAN :
          Init_WindowCreate(regOk, createOk, tempOk, procOk, ctxOk)
    \/ \E result \in BOOLEAN : Init_OnInit(result)
    \/ Tick_Check
    \/ \E msg \in Messages : \E closeRet \in CloseRets(msg) : Tick_Dispatch(msg, closeRet)
    \/ \E asyncState \in KeyStates : Tick_Escape(asyncState)
    \/ \E op \in RenderOps : OnTick_Render(op)
    \/ OnTick_Return
    \/ Tick_SwapBuffers
    \/ Destroy_OnDestroy
    \/ Destroy_Window
    \/ Destroy_OnLateDestroy

Spec == Init /\ [][Next]_vars

\* Application::Tick is straight-line code around calls that return: PollEvents
\* returns when the message queue is drained, and a client's OnTick is taken
\* to return unless it aborts the process
TickProgress ==
    /\ WF_vars(Tick_Check)
    /\ WF_vars(\E asyncState \in KeyStates : Tick_Escape(asyncState))
    /\ WF_vars(\E op \in RenderOps : OnTick_Render(op))
    /\ WF_vars(OnTick_Return)
    /\ WF_vars(Tick_SwapBuffers)

SpecFair == Init /\ [][Next]_vars /\ TickProgress

(***************************************************************************)
(* SpecWin: a program that uses Swindow::Window directly.                  *)
(***************************************************************************)
Lib_Create(description, regOk, createOk) ==
    /\ pc \in {"lib", "libDestroyed"}
    /\ ~winExists \/ pc = "libDestroyed"
    /\ SwindowCreate(description, regOk, createOk)
    /\ pc' = "lib"
    /\ UNCHANGED <<renderVars, m_OpenGLContext, currentContext, tempContextAlive,
                   client, clientDesc, tickPos, callLog, nTicks, iterLog, escSeen, keyTest>>

\* the setters with SetWindowMouseMoveCallback storing into the mouse-button slot
Lib_SetCallback_MouseMoveIntoMouse(kind, id) ==
    /\ pc = "lib" /\ winExists
    /\ m_WindowCallbacks' =
          [m_WindowCallbacks EXCEPT ![IF kind = "MouseMove" THEN "Mouse" ELSE kind] = id]
    /\ Cardinality({k \in CallbackKinds : m_WindowCallbacks'[k] # 0}) <= MaxRegistered
    /\ UNCHANGED <<renderVars, winExists, m_WindowDescription, m_IsRunning, lastEvent,
                   nativeVars, appVars, keyTest>>

\* Window::SetWindow<Kind>Callback(callback); id 0 is an empty std::function
Lib_SetCallback(kind, id) ==
    /\ pc = "lib" /\ winExists
    /\ m_WindowCallbacks' = [m_WindowCallbacks EXCEPT ![kind] = id]
    /\ Cardinality({k \in CallbackKinds : m_WindowCallbacks'[k] # 0}) <= MaxRegistered
    /\ UNCHANGED <<renderVars, winExists, m_WindowDescription, m_IsRunning, lastEvent,
                   nativeVars, appVars, keyTest>>

\* Window::SetIsRunning(value)
Lib_SetIsRunning(value) ==
    /\ pc = "lib" /\ winExists
    /\ m_IsRunning' = value
    /\ UNCHANGED <<renderVars, winExists, m_WindowDescription, m_WindowCallbacks, lastEvent,
                   nativeVars, appVars, keyTest>>

\* a message delivered to WindowProc by Window::PollEvents
Lib_Event(msg, closeRet) ==
    /\ pc = "lib" /\ winExists
    /\ m_WindowHandle = "valid"
    /\ WindowProc(msg, closeRet)
    /\ UNCHANGED <<renderVars, nativeVars, appVars, keyTest>>

\* Window::Destroy() that also clears the running flag
Lib_Destroy_ClearsRunning ==
    /\ pc = "lib" /\ winExists
    /\ NativeDestroy
    /\ m_IsRunning' = FALSE
    /\ pc' = "libDestroyed"
    /\ UNCHANGED <<renderVars, winExists, m_WindowDescription, m_WindowCallbacks, lastEvent,
                   client, clientDesc, tickPos, callLog, nTicks, iterLog, escSeen, keyTest>>

\* Window::Destroy()
Lib_Destroy ==
    /\ pc = "lib" /\ winExists
    /\ NativeDestroy
    /\ pc' = "libDestroyed"
    /\ UNCHANGED <<renderVars, windowVars, client, clientDesc, tickPos, callLog, nTicks, iterLog,
                   escSeen, keyTest>>

InitWin ==
    /\ RendererAtStart
    /\ NoWindow
    /\ pc = "lib"
    /\ client = "Library"
    /\ clientDesc \in Descriptions
    /\ tickPos = 0
    /\ callLog = <<>>
    /\ nTicks = 0
    /\ iterLog = <<>>
    /\ escSeen = FALSE
    /\ keyTest = NoKeyTest

NextWin ==
    \/ \E regOk, createOk \in BOOLEAN : Lib_Create(clientDesc, regOk, createOk)
    \/ \E kind \in CallbackKinds : \E id \in {0} \cup CallbackIds : Lib_SetCallback(kind, id)
    \/ \E value \in BOOLEAN : Lib_SetIsRunning(value)
    \/ \E msg \in Messages : \E closeRet \in CloseRets(msg) : Lib_Event(msg, closeRet)
    \/ Lib_Destroy

SpecWin == InitWin /\ [][NextWin]_vars

(***************************************************************************)
(* SpecKeys: the two lookups applied one after the other to every input.   *)
(***************************************************************************)
\* first lookup
Key_First ==
    /\ keyTest.step = 0
    /\ keyTest' = [keyTest EXCEPT
                     !.mid = IF keyTest.dir = "native" THEN ConvertNativeKeyCodes(keyTest.in)
                             ELSE GetNativeKeyCodes(keyTest.in),
                     !.step = 1]
    /\ UNCHANGED <<renderVars, windowVars, nativeVars, appVars>>

\* second lookup, on the result of the first
Key_Second ==
    /\ keyTest.step = 1
    /\ keyTest' = [keyTest EXCEPT
                     !.out = IF keyTest.dir = "native" THEN GetNativeKeyCodes(keyTest.mid)
                             ELSE ConvertNativeKeyCodes(keyTest.mid),
                     !.step = 2]
    /\ UNCHANGED <<renderVars, windowVars, nativeVars, appVars>>

InitKeys ==
    /\ RendererAtStart
    /\ NoWindow
    /\ pc = "keys"
    /\ client = "Library"
    /\ clientDesc \in Descriptions
    /\ tickPos = 0
    /\ callLog = <<>>
    /\ nTicks = 0
    /\ iterLog = <<>>
    /\ escSeen = FALSE
    /\ keyTest \in [dir : {"native"}, in : NativeCodes, mid : {0}, out : {0}, step : {0}]
                   \cup [dir : {"engine"}, in : KeyCodes, mid : {0}, out : {0}, step : {0}]

NextKeys == Key_First \/ Key_Second

SpecKeys == InitKeys /\ [][NextKeys]_vars

(***************************************************************************)
(* Properties.                                                             *)
(***************************************************************************)
InitFailed == Returned("OnEarlyInit", FALSE) \/ Returned("OnInit", FALSE)
InitSucceeded == Returned("OnInit", TRUE)
FullRun == <<"OnEarlyInit", "WindowCreate", "OnInit", "TickReturn",
             "OnDestroy", "WindowDestroy", "OnLateDestroy">>

\* C1: as long as the renderer calls made so far repeat BeginRender, DrawQuad,
\* EndRender in exactly that order, the process has not aborted; the Editor
\* client, whose OnTick makes exactly these calls, never aborts.
C1_OrderedCallsNeverAbort ==
    /\ inOrder => ~aborted
    /\ client = "Editor" => ~aborted

\* C1 witness: the Editor has completed the sequence in two ticks and runs on
C1_Witness ==
    /\ client = "Editor" /\ nTicks >= 2 /\ pc = "SwapBuffers"
    /\ lastCall = "EndRender" /\ inOrder /\ ~aborted

\* C2: a DrawQuad call made with no BeginRender since the last EndRender (or
\* since the start) aborts the process.
C2_DrawWithoutBeginAborts ==
    [][(OnTick_Render("DrawQuad") /\ ~begunSinceEnd) => aborted']_vars

\* C2 witness: DrawQuad was called right after an EndRender and aborted
C2_Witness ==
    /\ lastCall = "DrawQuad" /\ aborted /\ ~begunSinceEnd
    /\ orderPos = 1 /\ nTicks >= 2

\* C3: a close request handled while a close callback is registered and that
\* callback returns false leaves a running window running.
C3_CloseSuppressed ==
    [][\A msg \in Messages :
          (/\ msg.type = "WM_CLOSE"
           /\ m_WindowCallbacks["Close"] # 0
           /\ m_IsRunning
           /\ Lib_Event(msg, FALSE)) => m_IsRunning']_vars

\* C3 witness: the close callback was called, returned false, window running
C3_Witness ==
    /\ lastEvent.type = "WM_CLOSE"
    /\ lastEvent.calls # <<>>
    /\ lastEvent.calls[1].kind = "Close" /\ lastEvent.calls[1].args = <<FALSE>>
    /\ m_IsRunning

\* C4: a close request handled while no close callback is registered, or
\* whose callback returns true, leaves the running flag false.
C4_CloseStops ==
    [][\A msg \in Messages : \A closeRet \in BOOLEAN :
          (/\ msg.type = "WM_CLOSE"
           /\ (m_WindowCallbacks["Close"] = 0 \/ closeRet)
           /\ Lib_Event(msg, closeRet)) => ~m_IsRunning']_vars

\* C4 witness: a close request with no callback registered stopped the window
C4_Witness ==
    /\ lastEvent.type = "WM_CLOSE"
    /\ lastEvent.calls = <<>>
    /\ m_WindowCallbacks["Close"] = 0
    /\ ~m_IsRunning

\* C5: after a resize message carrying (w, h) the description has Width = w
\* and Height = h, callback or not, and a registered resize callback is called
\* with (w, h) and sees the updated description.
C5_ResizeUpdatesDescription ==
    [][\A msg \in Messages :
          (msg.type = "WM_SIZE" /\ Lib_Event(msg, TRUE)) =>
             /\ m_WindowDescription'.Width = LOWORD(msg.lParam)
             /\ m_WindowDescription'.Height = HIWORD(msg.lParam)
             /\ m_WindowCallbacks["Resize"] # 0 =>
                   /\ lastEvent'.calls = <<[kind |-> "Resize", id |-> m_WindowCallbacks["Resize"],
                                            args |-> <<LOWORD(msg.lParam), HIWORD(msg.lParam)>>]>>
                   /\ lastEvent'.seenW = LOWORD(msg.lParam)
                   /\ lastEvent'.seenH = HIWORD(msg.lParam)]_vars

\* C6: once the Escape check of the tick loop has found the key down, the
\* running flag is false and the loop never polls again.
C6_EscapeStopsLoop ==
    escSeen => /\ ~m_IsRunning
               /\ pc \in {"OnTick", "SwapBuffers", "TickCheck", "Destroy", "WindowDestroy",
                          "LateDestroy", "returned"}

\* C6 witness: the iteration in which Escape was found down reaches its end
C6_Witness ==
    escSeen /\ pc = "SwapBuffers" /\ ~m_IsRunning /\ nTicks >= 2

\* C7: when OnEarlyInit or OnInit returned false, CreateApplication has
\* returned; OnTick, OnDestroy, OnLateDestroy and Window Destroy were not
\* called, and a window that was created stays undestroyed.
C7_InitFailureSkipsTickAndDestroy ==
    InitFailed =>
        /\ pc = "returned"
        /\ nTicks = 0
        /\ ~Called("TickReturn")
        /\ ~Called("OnDestroy") /\ ~Called("WindowDestroy") /\ ~Called("OnLateDestroy")
        /\ m_WindowHandle # "destroyed"

\* C7 witness: OnInit failed after the window and its context were created
C7_Witness ==
    /\ Returned("OnInit", FALSE)
    /\ winExists /\ m_WindowHandle = "valid" /\ currentContext = "real"
    /\ pc = "returned"

\* C8: OnEarlyInit is the first call; the window exists only after
\* OnEarlyInit returned true and is built from the client's description;
\* OnInit is called only after the window was created; after OnEarlyInit
\* returned false there is no window and no OnInit call.
C8_InitOrder ==
    /\ callLog # <<>> => callLog[1].call = "OnEarlyInit"
    /\ winExists =>
          /\ Returned("OnEarlyInit", TRUE)
          /\ Len(callLog) >= 2 /\ callLog[2].call = "WindowCreate"
          /\ m_WindowDescription = clientDesc
    /\ Called("OnInit") =>
          /\ winExists
          /\ Len(callLog) >= 3 /\ callLog[3].call = "OnInit"
    /\ Returned("OnEarlyInit", FALSE) =>
          ~winExists /\ ~Called("WindowCreate") /\ ~Called("OnInit")

\* C8 witness: OnInit has just been called, on an existing window
C8_Witness ==
    /\ Len(callLog) = 3 /\ callLog[3].call = "OnInit"
    /\ winExists /\ client = "Generic"

\* C9: the lifecycle calls follow the fixed order, each at most once, and a
\* run whose Init succeeded and whose CreateApplication returned has made
\* OnDestroy, Window Destroy, OnLateDestroy once each, after the tick loop.
C9_TeardownOnceInOrder ==
    /\ InitSucceeded =>
          /\ Len(callLog) <= Len(FullRun)
          /\ \A i \in 1 .. Len(callLog) : callLog[i].call = FullRun[i]
    /\ (InitSucceeded /\ pc = "returned") => Len(callLog) = Len(FullRun)

\* C9 witness: a run that ticked and was torn down completely
C9_Witness ==
    /\ pc = "returned" /\ InitSucceeded /\ nTicks >= 1
    /\ Len(callLog) = Len(FullRun)
    /\ callLog[Len(callLog)].call = "OnLateDestroy"
    /\ m_WindowHandle = "destroyed"

\* C10: a native code of the native-to-engine table converted to a KeyCode
\* and back is the same code; a KeyCode of the engine-to-native table
\* converted to a native code and back is the same KeyCode.
C10_KeyCodeRoundTrip ==
    keyTest.step = 2 =>
        /\ (keyTest.dir = "native" /\ keyTest.in \in DOMAIN NativeToKeyMap)
              => keyTest.out = keyTest.in
        /\ (keyTest.dir = "engine" /\ keyTest.in \in DOMAIN KeyToNativeMap)
              => keyTest.out = keyTest.in

\* C10 witness: VK_UP went to KeyCode::Up and came back
C10_Witness ==
    /\ keyTest.step = 2 /\ keyTest.dir = "native"
    /\ keyTest.in = VK_UP /\ keyTest.mid = KeyCode_Up /\ keyTest.out = VK_UP

\* C11: a key-down or key-up message with native code c, handled while a key
\* callback is registered, calls that callback exactly once, with the KeyCode
\* the native-to-engine table gives for c (Unknown when c is not in it) and
\* with action true for key-down, false for key-up.
C11_KeyCallbackArguments ==
    [][\A msg \in Messages :
          (/\ msg.type \in {"WM_KEYDOWN", "WM_KEYUP"}
           /\ m_WindowCallbacks["Key"] # 0
           /\ Lib_Event(msg, TRUE)) =>
             lastEvent'.calls =
                <<[kind |-> "Key", id |-> m_WindowCallbacks["Key"],
                   args |-> <<IF msg.wParam \in DOMAIN NativeToKeyMap
                              THEN NativeToKeyMap[msg.wParam] ELSE KeyCode_Unknown,
                              msg.type = "WM_KEYDOWN">>]>>]_vars

\* C11 witness: a key-up of a code outside the table reached the callback
\* as (Unknown, false)
C11_Witness ==
    /\ lastEvent.type = "WM_KEYUP" /\ lastEvent.wParam \notin DOMAIN NativeToKeyMap
    /\ Len(lastEvent.calls) = 1
    /\ lastEvent.calls[1].kind = "Key"
    /\ lastEvent.calls[1].args = <<KeyCode_Unknown, FALSE>>

\* C12: a mouse-button message handled while a mouse callback is registered
\* calls it with the button of the message (left or right) and with action
\* true for a button-down, false for a button-up message.
C12_MouseCallbackArguments ==
    [][\A msg \in Messages :
          (/\ msg.type \in {"WM_LBUTTONDOWN", "WM_LBUTTONUP", "WM_RBUTTONDOWN", "WM_RBUTTONUP"}
           /\ m_WindowCallbacks["Mouse"] # 0
           /\ Lib_Event(msg, TRUE)) =>
             lastEvent'.calls =
                <<[kind |-> "Mouse", id |-> m_WindowCallbacks["Mouse"],
                   args |-> <<IF msg.type \in {"WM_LBUTTONDOWN", "WM_LBUTTONUP"}
                              THEN MouseButton_Left ELSE MouseButton_Right,
                              msg.type \in {"WM_LBUTTONDOWN", "WM_RBUTTONDOWN"}>>]>>]_vars

\* C13: Window::Create(description) gives a window whose description is the
\* given one and whose running flag is true, whether or not the platform
\* window could be created.
C13_CreateStoresDescriptionAndRuns ==
    [][\A regOk, createOk \in BOOLEAN :
          Lib_Create(clientDesc, regOk, createOk) =>
             /\ winExists'
             /\ m_WindowDescription'.Title = clientDesc.Title
             /\ m_WindowDescription'.Width = clientDesc.Width
             /\ m_WindowDescription'.Height = clientDesc.Height
             /\ m_IsRunning']_vars

\* C13 witness: a window whose platform window failed, running, description kept
C13_Witness ==
    /\ pc = "lib" /\ winExists /\ m_WindowHandle = "null" /\ ~classRegistered
    /\ m_IsRunning /\ m_WindowDescription = clientDesc
    /\ lastEvent = NoEvent /\ m_WindowCallbacks = NoCallbacks

\* the callback kind a message type is delivered to
KindOfMessage(type) ==
    CASE type = "WM_CHAR" -> "Character"
      [] type = "WM_SIZE" -> "Resize"
      [] type \in {"WM_KEYDOWN", "WM_KEYUP"} -> "Key"
      [] type \in {"WM_LBUTTONDOWN", "WM_LBUTTONUP", "WM_RBUTTONDOWN", "WM_RBUTTONUP"} -> "Mouse"
      [] type = "WM_MOUSEMOVE" -> "MouseMove"
      [] type = "WM_CLOSE" -> "Close"
      [] OTHER -> "none"

\* C14: a setter replaces the callback of its kind and leaves the other
\* kinds as they were; nothing but a setter changes the table of an existing
\* window; a message calls at most one callback, the one stored for its kind.
C14_LastSetCallbackWins ==
    [][/\ \A kind \in CallbackKinds : \A id \in {0} \cup CallbackIds :
             Lib_SetCallback(kind, id) =>
                /\ m_WindowCallbacks'[kind] = id
                /\ \A k \in CallbackKinds \ {kind} : m_WindowCallbacks'[k] = m_WindowCallbacks[k]
       /\ \A msg \in Messages : \A closeRet \in BOOLEAN :
             Lib_Event(msg, closeRet) =>
                /\ m_WindowCallbacks' = m_WindowCallbacks
                /\ Len(lastEvent'.calls) <= 1
                /\ \A i \in 1 .. Len(lastEvent'.calls) :
                      /\ lastEvent'.calls[i].kind = KindOfMessage(msg.type)
                      /\ lastEvent'.calls[i].id = m_WindowCallbacks[KindOfMessage(msg.type)]
                      /\ lastEvent'.calls[i].id # 0
                /\ (KindOfMessage(msg.type) \in CallbackKinds
                    /\ m_WindowCallbacks[KindOfMessage(msg.type)] # 0)
                      => Len(lastEvent'.calls) = 1
       /\ (Lib_Destroy \/ \E value \in BOOLEAN : Lib_SetIsRunning(value))
             => m_WindowCallbacks' = m_WindowCallbacks]_vars

\* C14 witness: a mouse-move message called callback 2 of its kind while the
\* mouse-button kind holds callback 1
C14_Witness ==
    /\ lastEvent.type = "WM_MOUSEMOVE"
    /\ Len(lastEvent.calls) = 1 /\ lastEvent.calls[1].id = 2
    /\ m_WindowCallbacks["MouseMove"] = 2 /\ m_WindowCallbacks["Mouse"] = 1

\* C15: when CreateContext returns without having made the real context
\* (the entry point was not resolved, or the context creation failed), no
\* rendering context is current; the function returns nothing to its caller.
C15_FailedCreateContextLeavesNothingBound ==
    [][\A regOk, createOk, tempOk, procOk, ctxOk \in BOOLEAN :
          (Init_WindowCreate(regOk, createOk, tempOk, procOk, ctxOk)
           /\ m_OpenGLContext' # "real")
             => currentContext' = "none"]_vars

\* the stage of the native window's life: 0 Uninitialized, 2 ContextCreated
\* (Sengine::Window::Create makes the window and calls CreateContext in one
\* call, so WindowCreated is never seen from outside), 3 Running, 4 Destroyed
LifecycleStage ==
    IF ~Called("WindowCreate") THEN 0
    ELSE IF Called("WindowDestroy") THEN 4
    ELSE IF nTicks > 0 \/ pc \in {"PollEvents", "OnTick", "SwapBuffers"} THEN 3
    ELSE 2

\* C16: in a run of CreateApplication the window is created, with its
\* context, once and before anything else is done with it; PollEvents,
\* IsKeyDown and SwapBuffers happen only between that and Destroy; Destroy
\* happens at most once; the stage never goes back.
C16_LifecycleForwardOnly ==
    [][/\ (\E regOk, createOk, tempOk, procOk, ctxOk \in BOOLEAN :
              Init_WindowCreate(regOk, createOk, tempOk, procOk, ctxOk))
             => (LifecycleStage = 0 /\ ~winExists /\ LifecycleStage' = 2)
       /\ ((\E msg \in Messages : \E closeRet \in BOOLEAN : Tick_Dispatch(msg, closeRet))
           \/ (\E asyncState \in KeyStates : Tick_Escape(asyncState))
           \/ Tick_SwapBuffers)
             => (LifecycleStage \in {2, 3} /\ LifecycleStage' = 3
                 /\ m_WindowHandle # "destroyed")
       /\ Destroy_Window => (LifecycleStage \in {2, 3} /\ LifecycleStage' = 4)
       /\ LifecycleStage' >= LifecycleStage]_vars

\* C16 witness: a whole run, with ticks, after which the window is destroyed
C16_Witness ==
    /\ pc = "returned" /\ LifecycleStage = 4 /\ nTicks > 1
    /\ m_WindowHandle = "destroyed" /\ m_OpenGLContext = "deleted"
    /\ lastEvent.type # "none"

\* C17: in every state where the process has not aborted, whatever renderer
\* calls were made, the render-pass counter is 0 or 1.
C17_CounterIsZeroOrOne ==
    ~aborted => m_CurrentRenderIndex \in {0, 1}

\* C17 witness: a client that is not the Editor is inside a pass, after a draw
C17_Witness ==
    /\ client = "Generic" /\ ~aborted /\ pc = "OnTick"
    /\ m_CurrentRenderIndex = 1 /\ lastCall = "DrawQuad" /\ nTicks > 1

\* C18: BeginRender with no pass active (counter 0) does not abort and sets
\* the counter to 1; BeginRender after a BeginRender with no EndRender since
\* aborts and leaves the counter as it was.  A pass is active exactly when
\* the counter is 1.
C18_BeginOnlyAtRest ==
    [][OnTick_Render("BeginRender") =>
          /\ begunSinceEnd <=> (m_CurrentRenderIndex = 1)
          /\ ~begunSinceEnd <=> (m_CurrentRenderIndex = 0)
          /\ m_CurrentRenderIndex = 0 => (~aborted' /\ m_CurrentRenderIndex' = 1)
          /\ begunSinceEnd =>
                (aborted' /\ m_CurrentRenderIndex' = m_CurrentRenderIndex)]_vars

\* C18 witness: the process aborted in a BeginRender made inside a pass
C18_Witness ==
    /\ aborted /\ lastCall = "BeginRender" /\ m_CurrentRenderIndex = 1
    /\ begunSinceEnd /\ pc = "OnTick"

\* C19: EndRender does not abort and leaves the counter at 0 whatever it
\* was; an EndRender right after an EndRender changes nothing.
C19_EndRenderResets ==
    [][OnTick_Render("EndRender") =>
          /\ ~aborted' /\ m_CurrentRenderIndex' = 0
          /\ lastCall = "EndRender" =>
                (m_CurrentRenderIndex' = m_CurrentRenderIndex /\ aborted' = aborted)]_vars

\* C19 witness: in the first tick an EndRender was made out of order, with
\* no pass active, and the process goes on with the counter at 0
C19_Witness ==
    /\ nTicks = 1 /\ pc = "OnTick" /\ client = "Generic"
    /\ lastCall = "EndRender" /\ orderPos = 2 /\ ~inOrder /\ ~begunSinceEnd
    /\ m_CurrentRenderIndex = 0 /\ ~aborted

\* the calls of one iteration of Application::Tick's loop body
TickBody == <<"PollEvents", "IsKeyDown", "OnTick", "SwapBuffers">>

\* C20: an iteration of the tick loop makes the calls PollEvents, the Escape
\* check, OnTick and SwapBuffers once each in this order: what it has done so
\* far is always the matching prefix, the loop condition is only evaluated
\* with no iteration or a whole one behind it, and once begun the body goes
\* on to OnTick and SwapBuffers whether or not the running flag was cleared
\* in it.  (An iteration ends early only when OnTick aborts the process.)
C20_TickIterationOrder ==
    /\ [](/\ pc = "PollEvents" => iterLog = SubSeq(TickBody, 1, 1)
          /\ pc \in {"OnTick", "SwapBuffers"} => iterLog = SubSeq(TickBody, 1, 3)
          /\ pc = "TickCheck" => iterLog = (IF nTicks = 0 THEN <<>> ELSE TickBody)
          /\ Called("TickReturn") => iterLog = TickBody)
    /\ [][/\ pc = "PollEvents" => pc' \in {"PollEvents", "OnTick"}
          /\ pc = "OnTick" => pc' \in {"OnTick", "SwapBuffers"}
          /\ pc = "SwapBuffers" => pc' = "TickCheck"
          /\ (pc = "TickCheck" /\ m_IsRunning) => pc' = "PollEvents"
          /\ pc' = "Destroy" => (pc = "TickCheck" /\ ~m_IsRunning /\ iterLog = TickBody)]_vars

\* C20 witness: the iteration whose poll handled a close request that
\* cleared the flag has gone on through OnTick and SwapBuffers
C20_Witness ==
    /\ pc = "TickCheck" /\ ~m_IsRunning /\ ~escSeen
    /\ lastEvent.type = "WM_CLOSE" /\ iterLog = TickBody /\ nTicks = 1

\* class ISengineApp: the hooks the driver calls, in the order of
\* CreateApplication (OnTick, called any number of times between OnInit and
\* OnDestroy, is not in callLog)
HookOrder == <<"OnEarlyInit", "OnInit", "OnDestroy", "OnLateDestroy">>

\* the hooks of callLog, in the order they were called
HookLog ==
    LET IsHook(e) == \E i \in 1 .. Len(HookOrder) : HookOrder[i] = e.call
        hooks == SelectSeq(callLog, IsHook)
    IN  [i \in 1 .. Len(hooks) |-> hooks[i].call]

\* C21: the client hooks are called in the order OnEarlyInit, OnInit, OnTick
\* any number of times, OnDestroy, OnLateDestroy, each of the four at most
\* once; OnTick runs only after OnInit returned true and never once
\* OnDestroy has been called.
C21_HookOrder ==
    /\ Len(HookLog) <= Len(HookOrder)
    /\ HookLog = SubSeq(HookOrder, 1, Len(HookLog))
    /\ (pc = "OnTick" \/ nTicks > 0) => Returned("OnInit", TRUE)
    /\ pc \in {"PollEvents", "OnTick", "SwapBuffers"} => ~Called("OnDestroy")
    /\ Called("OnDestroy") => pc \in {"WindowDestroy", "LateDestroy", "returned"}

\* C21 witness: a whole run, all four hooks called and OnTick more than once
C21_Witness ==
    /\ HookLog = HookOrder /\ nTicks > 1 /\ pc = "returned" /\ client = "Generic"

\* C22: after a successful Init, once the running flag has been cleared (by a
\* close request or by the Escape check) Tick returns and Destroy is called,
\* unless an OnTick aborts the process; and Tick returns only with the flag
\* false.
C22_LoopTerminates ==
    /\ (InitSucceeded /\ ~m_IsRunning) ~> (Called("TickReturn") \/ aborted)
    /\ [](Called("TickReturn") => ~m_IsRunning)
    /\ [][(pc = "TickCheck" /\ m_IsRunning) => ~Called("TickReturn")']_vars

\* C22 witness: Escape cleared the flag and Destroy has been entered
C22_Witness ==
    /\ pc = "Destroy" /\ Called("TickReturn") /\ InitSucceeded
    /\ escSeen /\ ~m_IsRunning /\ lastEvent.type # "WM_CLOSE"

\* C23: when CreateContext returns, on whichever path, the temporary context
\* it made no longer exists.
C23_TemporaryContextDestroyed ==
    [][\A regOk, createOk, tempOk, procOk, ctxOk \in BOOLEAN :
          Init_WindowCreate(regOk, createOk, tempOk, procOk, ctxOk)
             => ~tempContextAlive']_vars

\* C24: a message that is not a close request leaves the running flag as it
\* was, and so does Window::Destroy; the flag goes from true to false only in
\* SetIsRunning(false), in a close request that has no callback or whose
\* callback returned true, or in the Escape check of the tick loop.
C24_RunningFlagFrame ==
    [][/\ \A msg \in Messages :
             (msg.type # "WM_CLOSE" /\ lastEvent'.type = msg.type /\ Lib_Event(msg, TRUE))
                => m_IsRunning' = m_IsRunning
       /\ Lib_Destroy => m_IsRunning' = m_IsRunning
       /\ (m_IsRunning /\ ~m_IsRunning') =>
             \/ Lib_SetIsRunning(FALSE)
             \/ \E msg \in Messages : \E closeRet \in BOOLEAN :
                   /\ msg.type = "WM_CLOSE"
                   /\ m_WindowCallbacks["Close"] = 0 \/ closeRet
                   /\ Lib_Event(msg, closeRet)
             \/ \E asyncState \in KeyStates :
                   KeyIsDown(asyncState) /\ Tick_Escape(asyncState)]_vars

\* C24 witness: a window destroyed after a resize message, its flag still true
C24_Witness ==
    /\ pc = "libDestroyed" /\ m_WindowHandle = "destroyed" /\ m_IsRunning
    /\ lastEvent.type = "WM_SIZE" /\ lastEvent.calls # <<>>

\* C25: a failure inside window creation never reaches the driver: after
\* OnEarlyInit returned true, creating the window always leads on to OnInit,
\* and when OnInit returned true as well the tick loop is entered, with the
\* running flag true at its first check, whatever became of the native
\* window and of its context.
C25_WindowFailureNotPropagated ==
    /\ Returned("OnEarlyInit", TRUE) => (pc = "WindowCreate" \/ Called("WindowCreate"))
    /\ Called("WindowCreate") => (pc = "OnInit" \/ Called("OnInit"))
    /\ InitSucceeded => pc \notin {"Init", "WindowCreate", "OnInit"}
    /\ (InitSucceeded /\ pc = "returned") => Called("OnLateDestroy")
    /\ (InitSucceeded /\ pc = "TickCheck" /\ nTicks = 0) => m_IsRunning

\* C25 witness: the loop body runs though no native window and no context exist
C25_Witness ==
    /\ InitSucceeded /\ pc = "OnTick" /\ nTicks = 1
    /\ m_WindowHandle = "null" /\ m_OpenGLContext = "uninit" /\ currentContext = "none"

\* C26: when a native window is created as the first of the process, or
\* after an earlier platform window was destroyed, and RegisterClassEx can
\* succeed, the window class is registered when CreateWindowEx is called.
C26_ClassRegisteredAtCreate ==
    [][\A createOk \in BOOLEAN :
          (Lib_Create(clientDesc, TRUE, createOk)
           /\ (~registered \/ m_WindowHandle = "destroyed"))
             => classRegistered']_vars

====
